---- MODULE Spec2Model ----
(***************************************************************************)
(* staticfuzz: the bounded memory store, the slash-command dispatch and    *)
(* the /new_memory and /forget handlers of src/staticfuzz.py.              *)
(*                                                                         *)
(* A text is a sequence of one-character strings, so that strip(), lower(),*)
(* re.match(), replace() and split() are computed as Python computes them. *)
(* A handler is split at its datastore and network calls: each call is one *)
(* step, so that the states between the calls of one request, and the      *)
(* interleavings of two requests, are states of the model.                 *)
(***************************************************************************)
EXTENDS Integers, Sequences, FiniteSets, TLC

VARIABLES
    store,                  \* the Memory entities of the datastore
    nextId,                 \* the next integer id the datastore allocates
    now,                    \* the latest clock value an auto_now_add has read
    secret,                 \* app.config['WHISPER_SECRET']
    deity,                  \* flask.session.get('deity') of each session
    pc,                     \* where each request is in its handler
    handler,                \* the route each request runs
    session,                \* the session each request belongs to
    original_memory_text,   \* new_memory: original_memory_text
    memory_text,            \* new_memory: memory_text
    memory_to_delete,       \* new_memory: memory_to_delete (a key id, 0: None)
    base64_image,           \* Memory.create: created_memory.base64_image
    response,               \* the response each request has returned
    results,                \* SlashDanbooru.callback: what resp.json() gave
    entry,                  \* history: the store when the request was received
    evicted                 \* history: the entities the request has deleted

vars == <<store, nextId, now, secret, deity, pc, handler, session,
          original_memory_text, memory_text, memory_to_delete, base64_image,
          response, results, entry, evicted>>

----------------------------------------------------------------------------
(* Bounds of the model *)

\* the memories put in a run of SpecSerial or SpecConcurrent
MaxId == 11
\* the memories put in a run of Spec
MaxCmdId == 2
\* app.config['MAX_CHARACTERS'], which the configuration sets (140 in the
\* docstring of new_memory); here the texts are short
MAX_CHARACTERS == 12

(* Program constants *)

\* the capacity the eviction loop compares the count with
MAX_MEMORIES == 10

Requests == {1, 2}
Sessions == {1, 2}

----------------------------------------------------------------------------
(* Python string operations on texts *)

WHITESPACE == {" ", "\t", "\n"}

UPPERCASE == <<"A", "B", "C", "D", "E", "F", "G", "H", "I", "J", "K", "L", "M",
               "N", "O", "P", "Q", "R", "S", "T", "U", "V", "W", "X", "Y", "Z">>
LOWERCASE == <<"a", "b", "c", "d", "e", "f", "g", "h", "i", "j", "k", "l", "m",
               "n", "o", "p", "q", "r", "s", "t", "u", "v", "w", "x", "y", "z">>

\* str.lower() on one character
lower_char(c) ==
    IF \E i \in 1..Len(UPPERCASE) : UPPERCASE[i] = c
    THEN LOWERCASE[CHOOSE i \in 1..Len(UPPERCASE) : UPPERCASE[i] = c]
    ELSE c

\* str.lower()
lower(text) == [i \in 1..Len(text) |-> lower_char(text[i])]

RECURSIVE lstrip(_)
lstrip(text) ==
    IF text # <<>> /\ Head(text) \in WHITESPACE THEN lstrip(Tail(text)) ELSE text

RECURSIVE rstrip(_)
rstrip(text) ==
    IF text # <<>> /\ text[Len(text)] \in WHITESPACE
    THEN rstrip(SubSeq(text, 1, Len(text) - 1))
    ELSE text

\* str.strip()
strip(text) == rstrip(lstrip(text))

\* str.startswith(prefix)
startswith(text, prefix) ==
    /\ Len(prefix) <= Len(text)
    /\ SubSeq(text, 1, Len(prefix)) = prefix

\* str.endswith(suffix)
endswith(text, suffix) ==
    /\ Len(suffix) <= Len(text)
    /\ SubSeq(text, Len(text) - Len(suffix) + 1, Len(text)) = suffix

\* str.replace(pattern, ''): every occurrence, left to right
RECURSIVE remove_all(_, _)
remove_all(text, pattern) ==
    IF text = <<>> THEN <<>>
    ELSE IF startswith(text, pattern)
         THEN remove_all(SubSeq(text, Len(pattern) + 1, Len(text)), pattern)
         ELSE <<Head(text)>> \o remove_all(Tail(text), pattern)

\* str.split(' '): the pieces between single spaces, empty pieces included
RECURSIVE split_from(_, _)
split_from(text, piece) ==
    IF text = <<>> THEN <<piece>>
    ELSE IF Head(text) = " "
         THEN <<piece>> \o split_from(Tail(text), <<>>)
         ELSE split_from(Tail(text), Append(piece, Head(text)))

split(text) == split_from(text, <<>>)

----------------------------------------------------------------------------
(* The datastore: Memory entities *)

\* Memory(text=text) once put(): the key id, the auto_now_add timestamp, the
\* text and the thumbnail ("None" when there is none).
Memory(id, timestamp, text, image) ==
    [id |-> id, timestamp |-> timestamp, text |-> text, base64_image |-> image]

\* Memory.query().count()
count(memories) == Cardinality(memories)

\* Memory.query(Memory.text == memory_text).count()
count_with_text(memories, text) ==
    Cardinality({m \in memories : m.text = text})

\* oldest_key with the slip of taking the last of the entities of equal timestamp
OldestLargestIdOnTie(memories) ==
    IF memories = {} THEN 0
    ELSE (CHOOSE m \in memories :
            \A o \in memories :
                \/ m.timestamp < o.timestamp
                \/ m.timestamp = o.timestamp /\ m.id >= o.id).id

\* Memory.query().order(Memory.timestamp).get(keys_only=True): the key of the
\* first entity of the timestamp index, whose entries of equal timestamp are in
\* key order; 0 stands for None, the result on an empty store.
oldest_key(memories) ==
    IF memories = {} THEN 0
    ELSE (CHOOSE m \in memories :
            \A o \in memories :
                \/ m.timestamp < o.timestamp
                \/ m.timestamp = o.timestamp /\ m.id <= o.id).id

\* delete_key with the slip of deleting up to the key
delete_up_to_key(memories, id) == {m \in memories : m.id > id}

\* key.delete() with the slip of deleting nothing
delete_nothing(memories, id) == memories

\* key.delete(): removes the entity of that key, if there is one
delete_key(memories, id) == {m \in memories : m.id # id}

\* the clock values an auto_now_add may read after having read `t`: a later
\* instant, or the same instant again where the clock is too coarse to tell
\* two puts apart
CoarseInstants == {1}
ClockReadings(t) == {t + 1} \cup (IF t \in CoarseInstants THEN {t} ELSE {})

----------------------------------------------------------------------------
(* Responses *)

\* no response yet; also the None that validate() returns on success
None == [code |-> 0, body |-> ""]
\* flask.redirect(flask.url_for('show_memories'))
Redirect == [code |-> 302, body |-> "show_memories"]
\* a (message, status) tuple, or flask.abort(status)
Status(message, code) == [code |-> code, body |-> message]
\* an exception that leaves the handler: flask answers 500
Fault(exception) == [code |-> 500, body |-> exception]
\* requests.get(...).json() not called yet
NoSearch == [raised |-> "not called", results |-> <<>>]

----------------------------------------------------------------------------
(* Slash commands *)

LOGIN == <<"l", "o", "g", "i", "n">>
LOGOUT == <<"l", "o", "g", "o", "u", "t">>
DANBOORU == <<"d", "a", "n", "b", "o", "o", "r", "u">>

\* SlashCommand.attempt: text = text.lower().strip()
attempt_text(text) == strip(lower(text))

\* SlashCommand.attempt: re.match(r'/NAME\s*', text) is not None
attempt_matches(NAME, text) == startswith(attempt_text(text), <<"/">> \o NAME)

nonempty(arg) == arg # <<>>

\* SlashCommand.attempt: the args handed to callback(*args)
attempt_args(NAME, text) ==
    LET pieces == split(remove_all(attempt_text(text), <<"/">> \o NAME))
    IN  SelectSeq([i \in 1..Len(pieces) |-> strip(pieces[i])], nonempty)

\* SlashCommandResponse(create_memory, value), with the effect the callback
\* had on flask.session; raised names the exception when the call failed.
SlashCommandResponse(create_memory, value, session_op) ==
    [raised |-> "", create_memory |-> create_memory, value |-> value,
     session_op |-> session_op]
Raised(exception) ==
    [raised |-> exception, create_memory |-> FALSE, value |-> None,
     session_op |-> "none"]

\* SlashLogin with the slip of not comparing the secret
SlashLoginAnySecret(args, whisper_secret) ==
    IF Len(args) # 1 THEN Raised("TypeError")
    ELSE SlashCommandResponse(FALSE, Redirect, "set")

\* SlashLogin.callback(secret_attempt); a call with another number of
\* arguments raises TypeError
SlashLogin(args, whisper_secret) ==
    IF Len(args) # 1 THEN Raised("TypeError")
    ELSE IF args[1] = whisper_secret
         THEN SlashCommandResponse(FALSE, Redirect, "set")
         ELSE SlashCommandResponse(FALSE, Status("LOGIN_FAIL", 401), "none")

\* SlashLogout with the slip of taking whatever arguments come
SlashLogoutAnyArgs(args) == SlashCommandResponse(FALSE, Redirect, "pop")

\* SlashLogout.callback(); a call with arguments raises TypeError
SlashLogout(args) ==
    IF Len(args) # 0 THEN Raised("TypeError")
    ELSE SlashCommandResponse(FALSE, Redirect, "pop")

\* the for loop of new_memory: the first command whose attempt() is not None
first_match(text) ==
    IF attempt_matches(LOGIN, text) THEN "login"
    ELSE IF attempt_matches(LOGOUT, text) THEN "logout"
    ELSE IF attempt_matches(DANBOORU, text) THEN "danbooru"
    ELSE "none"

\* flask.session after the callback
session_after(flag, session_op) ==
    CASE session_op = "set" -> TRUE
      [] session_op = "pop" -> FALSE
      [] OTHER -> flag

----------------------------------------------------------------------------
(* Validation and the slash guard *)

\* validate with the slip of leaving out the query for the text
validate_no_duplicate_check(text, memories) ==
    IF Len(text) = 0 THEN Status("Too short!", 400)
    ELSE IF Len(text) > MAX_CHARACTERS THEN Status("ERROR_TOO_LONG", 400)
    ELSE None

\* validate with the slip of letting the text of a command through, as if the
\* commands were attempted first
validate_after_commands(text, memories) ==
    IF first_match(text) # "none" THEN None
    ELSE IF Len(text) = 0 THEN Status("Too short!", 400)
    ELSE IF Len(text) > MAX_CHARACTERS THEN Status("ERROR_TOO_LONG", 400)
    ELSE IF count_with_text(memories, text) > 0
         THEN Status("ERROR_UNORIGINAL", 400)
    ELSE None

\* validate(memory_text)
validate(text, memories) ==
    IF Len(text) = 0 THEN Status("Too short!", 400)
    ELSE IF Len(text) > MAX_CHARACTERS THEN Status("ERROR_TOO_LONG", 400)
    ELSE IF count_with_text(memories, text) > 0
         THEN Status("ERROR_UNORIGINAL", 400)
    ELSE None

\* slash_guard with the slip of never rejecting
no_slash_guard(text, original) == FALSE

\* slash_guard with the slip of rejecting the text a command has replaced
\* instead of the text no command has touched
slash_guard_replaced(text, original) == text[1] = "/" /\ text # original

\* memory_text[0] == '/' and memory_text == original_memory_text

slash_guard(text, original) == text[1] = "/" /\ text = original

\* is_full with the slip of trimming only a store that is over its capacity
is_over_full(n) == n = MAX_MEMORIES + 1

\* the condition of the eviction loop: Memory.query().count() == 10

is_full(n) == n = MAX_MEMORIES

----------------------------------------------------------------------------
(* Image probe *)

IMAGE_EXTENSIONS ==
    { <<".", "j", "p", "g">>, <<".", "j", "p", "e", "g">>,
      <<".", "p", "n", "g">>, <<".", "g", "i", "f">> }

HTTP == <<"h", "t", "t", "p">>

\* uri_valid_image(uri), given what requests.head(uri) does: "True", "False",
\* or "raise" when head raises an exception the except clause does not name
uri_valid_image(uri, head) ==
    IF ~ \E ext \in IMAGE_EXTENSIONS : endswith(lower(uri), ext) THEN "False"
    ELSE IF ~ startswith(uri, HTTP) THEN "False"
    ELSE CASE head = "200" -> "True"
           [] head = "404" -> "False"
           [] head = "ConnectionError" -> "False"
           [] OTHER -> "raise"

----------------------------------------------------------------------------
(* The state after construction: an empty datastore, no session a deity, no
   request in flight. The secret is whatever the configuration sets. *)

InitWith(secrets) ==
    /\ store = {}
    /\ nextId = 1
    /\ now = 0
    /\ secret \in secrets
    /\ deity = [s \in Sessions |-> FALSE]
    /\ pc = [r \in Requests |-> "idle"]
    /\ handler = [r \in Requests |-> "none"]
    /\ session = [r \in Requests |-> 1]
    /\ original_memory_text = [r \in Requests |-> <<>>]
    /\ memory_text = [r \in Requests |-> <<>>]
    /\ memory_to_delete = [r \in Requests |-> 0]
    /\ base64_image = [r \in Requests |-> "None"]
    /\ response = [r \in Requests |-> None]
    /\ results = [r \in Requests |-> NoSearch]
    /\ entry = [r \in Requests |-> {}]
    /\ evicted = [r \in Requests |-> {}]

\* the handler of request r returns `resp`
Returns(r, resp) ==
    /\ pc' = [pc EXCEPT ![r] = "done"]
    /\ response' = [response EXCEPT ![r] = resp]

\* the handler of request r goes on to `label`
Goto(r, label) ==
    /\ pc' = [pc EXCEPT ![r] = label]
    /\ UNCHANGED response

\* the new_memory requests that may still put an entity
putting == {q \in Requests : pc[q] \notin {"idle", "done"}}

----------------------------------------------------------------------------
(* /new_memory *)

\* new_memory up to the eviction loop: strip, validate, the commands in their
\* order, the slash guard. A danbooru match goes on to its network call.
new_memory(r, s, raw, maxId) ==
    /\ pc[r] = "idle"
    /\ nextId + Cardinality(putting) <= maxId
    /\ handler' = [handler EXCEPT ![r] = "new_memory"]
    /\ session' = [session EXCEPT ![r] = s]
    /\ original_memory_text' = [original_memory_text EXCEPT ![r] = strip(raw)]
    /\ memory_text' = [memory_text EXCEPT ![r] = strip(raw)]
    /\ entry' = [entry EXCEPT ![r] = store]
    /\ UNCHANGED <<store, nextId, now, secret, memory_to_delete, base64_image,
                   results, evicted>>
    /\ LET text == strip(raw)
           validation_payload == validate(text, store)
           command == first_match(text)
           result == IF command = "login"
                     THEN SlashLogin(attempt_args(LOGIN, text), secret)
                     ELSE SlashLogout(attempt_args(LOGOUT, text))
       IN  IF validation_payload # None
           THEN Returns(r, validation_payload) /\ UNCHANGED deity
           ELSE IF command \in {"login", "logout"}
           THEN IF result.raised # ""
                THEN Returns(r, Fault(result.raised)) /\ UNCHANGED deity
                ELSE /\ deity' = [deity EXCEPT
                                    ![s] = session_after(@, result.session_op)]
                     /\ Returns(r, result.value)
           ELSE IF command = "danbooru"
           THEN Goto(r, "search") /\ UNCHANGED deity
           ELSE IF slash_guard(text, text)
           THEN Returns(r, Status("Invalid Slash Command", 400))
                /\ UNCHANGED deity
           ELSE Goto(r, "count") /\ UNCHANGED deity

DANBOORU_HOST ==
    <<"h", "t", "t", "p", ":", "/", "/", "d", "a", "n", "b", "o", "o", "r", "u",
      ".", "d", "o", "n", "m", "a", "i", ".", "u", "s">>

\* a post of the search result: a JSON object, with or without "file_url"
Post(file_url) == [file_url |-> file_url]
RESTRICTED_POST == [id |-> 1]

\* SlashDanbooru.callback with the slip of not catching IndexError
SlashDanbooruIndexError(search, pick) ==
    IF search.raised # "" THEN Raised(search.raised)
    ELSE IF Len(search.results) = 0 THEN Raised("IndexError")
    ELSE IF "file_url" \notin DOMAIN search.results[pick] THEN Raised("KeyError")
    ELSE SlashCommandResponse(TRUE,
            DANBOORU_HOST \o search.results[pick].file_url, "none")

\* SlashDanbooru.callback(*args) once requests.get has returned: `search` is
\* what the request and resp.json() produced, `pick` the index random.choice
\* draws. Only the IndexError of an empty result is caught.
SlashDanbooru_callback(search, pick) ==
    IF search.raised # "" THEN Raised(search.raised)
    ELSE IF Len(search.results) = 0
    THEN SlashCommandResponse(FALSE, Status("ERROR_DANBOORU", 400), "none")
    ELSE IF "file_url" \notin DOMAIN search.results[pick] THEN Raised("KeyError")
    ELSE SlashCommandResponse(TRUE,
            DANBOORU_HOST \o search.results[pick].file_url, "none")

\* the danbooru branch of new_memory from the network call on: the callback,
\* then the break out of the command loop and the slash guard
SlashDanbooru(r, search, pick) ==
    /\ pc[r] = "search"
    /\ pick \in 1..Len(search.results) \/ (pick = 1 /\ search.results = <<>>)
    /\ results' = [results EXCEPT ![r] = search]
    /\ UNCHANGED <<store, nextId, now, secret, deity, handler, session,
                   original_memory_text, memory_to_delete, base64_image,
                   entry, evicted>>
    /\ LET result == SlashDanbooru_callback(search, pick)
       IN  IF result.raised # ""
           THEN Returns(r, Fault(result.raised)) /\ UNCHANGED memory_text
           ELSE IF ~ result.create_memory
           THEN Returns(r, result.value) /\ UNCHANGED memory_text
           ELSE /\ memory_text' = [memory_text EXCEPT ![r] = result.value]
                /\ IF slash_guard(result.value, original_memory_text[r])
                   THEN Returns(r, Status("Invalid Slash Command", 400))
                   ELSE Goto(r, "count")

\* The eviction loop, one datastore call at a time:
\*   while Memory.query().count() == 10:                      (pc "count")
\*       memory_to_delete = Memory.query().order(Memory.timestamp)
\*                                .get(keys_only=True)        (pc "oldest")
\*       memory_to_delete.delete()                            (pc "delete")
\* On None, the result of the query on an empty store, delete raises.
eviction(r) ==
    /\ pc[r] \in {"count", "oldest", "delete"}
    /\ CASE pc[r] = "count" ->
              /\ IF is_full(count(store))
                 THEN Goto(r, "oldest")
                 ELSE Goto(r, "create")
              /\ UNCHANGED <<store, memory_to_delete, evicted>>
         [] pc[r] = "oldest" ->
              /\ memory_to_delete' =
                     [memory_to_delete EXCEPT ![r] = oldest_key(store)]
              /\ Goto(r, "delete")
              /\ UNCHANGED <<store, evicted>>
         [] pc[r] = "delete" ->
              /\ UNCHANGED memory_to_delete
              /\ IF memory_to_delete[r] = 0
                 THEN /\ Returns(r, Fault("AttributeError"))
                      /\ UNCHANGED <<store, evicted>>
                 ELSE /\ store' = delete_key(store, memory_to_delete[r])
                      /\ evicted' = [evicted EXCEPT
                             ![r] = @ \cup {m \in store :
                                              m.id = memory_to_delete[r]}]
                      /\ Goto(r, "count")
    /\ UNCHANGED <<nextId, now, secret, deity, handler, session,
                   original_memory_text, memory_text, base64_image, results,
                   entry>>

\* Memory.create(memory_text): `head` is what requests.head does, `glitch`
\* what glitch.glitch_from_url does
Memory_create(r, head, glitch) ==
    /\ pc[r] = "create"
    /\ LET valid == uri_valid_image(memory_text[r], head)
       IN  IF valid = "raise"
           THEN Returns(r, Fault(head)) /\ UNCHANGED base64_image
           ELSE IF valid = "True" /\ glitch # "glitch"
           THEN Returns(r, Fault(glitch)) /\ UNCHANGED base64_image
           ELSE /\ base64_image' = [base64_image EXCEPT
                     ![r] = IF valid = "True" THEN "glitch" ELSE "None"]
                /\ Goto(r, "put")
    /\ UNCHANGED <<store, nextId, now, secret, deity, handler, session,
                   original_memory_text, memory_text, memory_to_delete, results,
                   entry, evicted>>

\* new_memory.put() and the redirect: `reading` is the clock value that
\* auto_now_add reads, the key id the next one the datastore allocates
Memory_put(r) ==
    /\ pc[r] = "put"
    /\ \E reading \in ClockReadings(now) :
          /\ store' = store \cup
                  {Memory(nextId, reading, memory_text[r], base64_image[r])}
          /\ now' = reading
    /\ nextId' = nextId + 1
    /\ Returns(r, Redirect)
    /\ UNCHANGED <<secret, deity, handler, session, original_memory_text,
                   memory_text, memory_to_delete, base64_image, results, entry,
                   evicted>>

----------------------------------------------------------------------------
(* /forget *)

DIGITS == <<"0", "1", "2", "3", "4", "5", "6", "7", "8", "9">>

is_digit(c) == \E d \in 1..10 : DIGITS[d] = c

\* int(flask.request.form["id"]) on a string of decimal digits
RECURSIVE int(_)
int(text) ==
    IF text = <<>> THEN 0
    ELSE 10 * int(SubSeq(text, 1, Len(text) - 1))
         + (CHOOSE d \in 1..10 : DIGITS[d] = text[Len(text)]) - 1

\* int() raises ValueError
not_an_int(text) == text = <<>> \/ \E i \in 1..Len(text) : ~ is_digit(text[i])

\* may_forget with the slip of not looking at the session
anyone_may_forget(flag) == TRUE

\* if not flask.session.get('deity'): flask.abort(401)

may_forget(flag) == flag

\* forget(): one datastore call
forget(r, s, id) ==
    /\ pc[r] = "idle"
    /\ handler' = [handler EXCEPT ![r] = "forget"]
    /\ session' = [session EXCEPT ![r] = s]
    /\ original_memory_text' = [original_memory_text EXCEPT ![r] = id]
    /\ entry' = [entry EXCEPT ![r] = store]
    /\ IF ~ may_forget(deity[s])
       THEN Returns(r, Status("Unauthorized", 401)) /\ UNCHANGED <<store, evicted>>
       ELSE IF not_an_int(id)
       THEN Returns(r, Fault("ValueError")) /\ UNCHANGED <<store, evicted>>
       ELSE /\ store' = delete_key(store, int(id))
            /\ evicted' = [evicted EXCEPT ![r] = {m \in store : m.id = int(id)}]
            /\ Returns(r, Redirect)
    /\ UNCHANGED <<nextId, now, secret, deity, memory_text, memory_to_delete,
                   base64_image, results>>

\* the response is with the client; the next request starts afresh
close(r) ==
    /\ pc[r] = "done"
    /\ pc' = [pc EXCEPT ![r] = "idle"]
    /\ handler' = [handler EXCEPT ![r] = "none"]
    /\ session' = [session EXCEPT ![r] = 1]
    /\ original_memory_text' = [original_memory_text EXCEPT ![r] = <<>>]
    /\ memory_text' = [memory_text EXCEPT ![r] = <<>>]
    /\ memory_to_delete' = [memory_to_delete EXCEPT ![r] = 0]
    /\ base64_image' = [base64_image EXCEPT ![r] = "None"]
    /\ response' = [response EXCEPT ![r] = None]
    /\ results' = [results EXCEPT ![r] = NoSearch]
    /\ entry' = [entry EXCEPT ![r] = {}]
    /\ evicted' = [evicted EXCEPT ![r] = {}]
    /\ UNCHANGED <<store, nextId, now, secret, deity>>

----------------------------------------------------------------------------
(* Inputs *)

Slash(NAME) == <<"/">> \o NAME
WithArg(text, arg) == text \o <<" ">> \o arg
Repeat(c, n) == [i \in 1..n |-> c]

\* the malformed URI "http:///.jpg": requests.head raises InvalidURL on it
BAD_URI == HTTP \o <<":", "/", "/", "/", ".", "j", "p", "g">>

Found(posts) == [raised |-> "", results |-> posts]
SearchFailed == [raised |-> "ConnectionError", results |-> <<>>]

\* command texts longer than MAX_CHARACTERS: "/login", blanks and the secret;
\* "/logout" twice with blanks between; "/danbooru" with long tags
LONG_LOGIN == Slash(LOGIN) \o Repeat(" ", MAX_CHARACTERS) \o <<"s">>
LONG_LOGOUT == Slash(LOGOUT) \o Repeat(" ", MAX_CHARACTERS) \o Slash(LOGOUT)
LONG_DANBOORU == WithArg(Slash(DANBOORU), Repeat("t", MAX_CHARACTERS))

JPG == <<"/", "1", ".", "j", "p", "g">>
SWF == <<"/", "2", ".", "s", "w", "f">>

\* what is posted, who posts it and what the network does, in Spec
CmdTexts ==
    { <<"a">>, <<" ", "a", "\n">>, <<" ">>, <<>>,
      Repeat("x", MAX_CHARACTERS), Repeat("x", MAX_CHARACTERS + 1),
      WithArg(Slash(LOGIN), <<"s">>), WithArg(Slash(LOGIN), <<"S">>),
      WithArg(Slash(LOGIN), <<"x">>), Slash(LOGIN),
      Slash(LOGOUT), WithArg(Slash(LOGOUT), <<"x">>),
      Slash(<<"L", "o", "g", "o", "u", "t">>),
      Slash(<<"b", "o", "g", "u", "s">>), Slash(Repeat("x", MAX_CHARACTERS)),
      WithArg(Slash(DANBOORU), <<"t">>), BAD_URI,
      LONG_LOGIN, LONG_LOGOUT, LONG_DANBOORU }
CmdSecrets == { <<"s">>, <<"S">> }
CmdIds == { <<"1">>, <<"2">>, <<"x">> }
CmdSearches ==
    { Found(<<Post(JPG), Post(SWF)>>), Found(<<RESTRICTED_POST>>), Found(<<>>),
      SearchFailed }
CmdHeads == { "200", "404", "ConnectionError", "RequestException" }
CmdGlitches == { "glitch", "IOError" }

\* the same in SpecSerial and SpecConcurrent, which fill the store
CapTexts ==
    { <<"a">>, WithArg(Slash(LOGIN), <<"s">>), Slash(LOGOUT),
      WithArg(Slash(DANBOORU), <<"t">>), BAD_URI }
CapSecrets == { <<"s">> }
CapIds == { <<"1">>, <<"3">> }
CapSearches == { Found(<<Post(SWF)>>), Found(<<>>) }
CapHeads == { "RequestException" }
CapGlitches == { "glitch" }

----------------------------------------------------------------------------
(* Specifications *)

\* commands, validation and forget, two sessions, one request at a time
Init == InitWith(CmdSecrets)

Next ==
    \E r \in {1} :
        \/ \E s \in Sessions, raw \in CmdTexts : new_memory(r, s, raw, MaxCmdId)
        \/ \E search \in CmdSearches, pick \in 1..2 : SlashDanbooru(r, search, pick)
        \/ eviction(r)
        \/ \E head \in CmdHeads, glitch \in CmdGlitches : Memory_create(r, head, glitch)
        \/ Memory_put(r)
        \/ \E s \in Sessions, id \in CmdIds : forget(r, s, id)
        \/ close(r)

Spec == Init /\ [][Next]_vars

\* one request at a time, until the store is full and evicts
InitSerial == InitWith(CapSecrets)

NextSerial ==
    \E r \in {1} :
        \/ \E raw \in CapTexts : new_memory(r, 1, raw, MaxId)
        \/ \E search \in CapSearches : SlashDanbooru(r, search, 1)
        \/ eviction(r)
        \/ \E head \in CapHeads, glitch \in CapGlitches : Memory_create(r, head, glitch)
        \/ Memory_put(r)
        \/ \E id \in CapIds : forget(r, 1, id)
        \/ close(r)

SpecSerial == InitSerial /\ [][NextSerial]_vars

\* the same, where a request that has been received is run to its end: the
\* server goes on with its handler and the calls to the network return
running(r) ==
    \/ \E search \in CapSearches : SlashDanbooru(r, search, 1)
    \/ eviction(r)
    \/ \E head \in CapHeads, glitch \in CapGlitches : Memory_create(r, head, glitch)
    \/ Memory_put(r)

SpecSerialFair == SpecSerial /\ \A r \in {1} : WF_vars(running(r))

\* two new_memory requests interleaved at their datastore and network calls,
\* with one more put than SpecSerial so that an over-full store gets a request
ConcTexts == { WithArg(Slash(DANBOORU), <<"t">>) }

NextConcurrent ==
    \E r \in Requests :
        \/ \E raw \in ConcTexts : new_memory(r, 1, raw, MaxId + 1)
        \/ \E search \in CapSearches : SlashDanbooru(r, search, 1)
        \/ eviction(r)
        \/ \E head \in CapHeads, glitch \in CapGlitches : Memory_create(r, head, glitch)
        \/ Memory_put(r)
        \/ close(r)

SpecConcurrent == InitSerial /\ [][NextConcurrent]_vars

----------------------------------------------------------------------------
(* Properties *)

\* request r is a new_memory submission that went through the store step and
\* was answered with the redirect
stored(r) ==
    /\ pc[r] = "done"
    /\ handler[r] = "new_memory"
    /\ response[r] = Redirect
    /\ first_match(original_memory_text[r]) \notin {"login", "logout"}

\* m is older than every entity of memories: smaller timestamp, or the same
\* timestamp and an id not larger
oldest_of(m, memories) ==
    \A o \in memories :
        \/ m.timestamp < o.timestamp
        \/ m.timestamp = o.timestamp /\ m.id <= o.id

\* C1. Capacity invariant, serial case: with the requests handled one at a
\* time from an empty store, the store never holds more than MAX_MEMORIES
\* memories, in any state, the states between the eviction and the put of one
\* submission included.
CapacityInvariant == Cardinality(store) <= MAX_MEMORIES

\* C1 witness: a submission has evicted from a full store and is about to put.
CapacityWitness ==
    \E r \in Requests :
        /\ pc[r] = "put"
        /\ evicted[r] # {}
        /\ Cardinality(entry[r]) = MAX_MEMORIES
        /\ Cardinality(store) = MAX_MEMORIES - 1

\* C2. Capacity under concurrency: with two new_memory requests interleaved at
\* their datastore calls, the store never holds more than MAX_MEMORIES
\* memories (no two requests both see room for one and both put).
ConcurrentCapacity ==
    ~ (count(store) > MAX_MEMORIES)

\* C3. Eviction order: an accepted submission adds exactly one memory; when the
\* store held MAX_MEMORIES on its arrival it removes exactly one, the one of
\* smallest timestamp (smallest id among equal timestamps), keeps the others
\* as they were and leaves MAX_MEMORIES in the store; when the store held
\* fewer it removes none.
EvictionOrder ==
    \A r \in Requests :
        stored(r) =>
            LET removed == entry[r] \ store
                added == store \ entry[r]
            IN  /\ Cardinality(added) = 1
                /\ \A m \in added : m.text = memory_text[r]
                /\ removed = evicted[r]
                /\ IF Cardinality(entry[r]) = MAX_MEMORIES
                   THEN /\ Cardinality(removed) = 1
                        /\ \A m \in removed : oldest_of(m, entry[r])
                        /\ Cardinality(store) = MAX_MEMORIES
                   ELSE /\ removed = {}
                        /\ Cardinality(store) = Cardinality(entry[r]) + 1

\* C3 witness: a submission was accepted on a full store whose two oldest
\* memories had the same timestamp.
EvictionOrderWitness ==
    \E r \in Requests :
        /\ stored(r)
        /\ Cardinality(entry[r]) = MAX_MEMORIES
        /\ \E m \in evicted[r], o \in entry[r] :
              m # o /\ m.timestamp = o.timestamp

\* C4. No partial success: a new_memory submission that ends without the
\* success redirect has changed nothing in the store, and one that ends with
\* the redirect after the store step has its memory in the store.
NoPartialSuccess ==
    \A r \in Requests :
        (pc[r] = "done" /\ handler[r] = "new_memory") =>
            /\ response[r] # Redirect => store = entry[r]
            /\ stored(r) => \E m \in store \ entry[r] : m.text = memory_text[r]

\* request r is received in this step by handler h
receives(r, h) == pc[r] = "idle" /\ pc'[r] # "idle" /\ handler'[r] = h

\* C5. Duplicate rejection: a submission whose trimmed text is the text of a
\* memory in the store is answered at once with a 400 response; the store and
\* every session's flag stay as they were.
DuplicateRejection ==
    [][\A r \in Requests :
          ( /\ receives(r, "new_memory")
            /\ \E m \in store : m.text = original_memory_text'[r] )
          => /\ pc'[r] = "done"
             /\ response'[r].code = 400
             /\ store' = store
             /\ deity' = deity]_vars

\* C5 witness: a submission of a stored text was answered 400.
DuplicateRejectionWitness ==
    \E r \in Requests :
        /\ pc[r] = "done"
        /\ handler[r] = "new_memory"
        /\ response[r] = Status("ERROR_UNORIGINAL", 400)
        /\ \E m \in store : m.text = original_memory_text[r]

\* C6. Login command: the submission "/login <s>", <s> the configured secret,
\* is answered with the redirect, makes its session a deity and leaves the
\* store as it was.
LoginCommand ==
    \A r \in Requests :
        ( /\ pc[r] = "done"
          /\ handler[r] = "new_memory"
          /\ original_memory_text[r] = WithArg(Slash(LOGIN), secret) )
        => /\ response[r] = Redirect
           /\ deity[session[r]]
           /\ store = entry[r]

\* C7. Privileged-flag provenance: a session's flag changes only when a
\* submission of that session is answered with the redirect by the login
\* command, given the secret (it becomes true), or by the logout command (it
\* becomes false); a logout answered with the redirect leaves the flag false
\* whatever it was, and a 401 answer leaves every flag as it was.
FlagProvenance ==
    [][\A s \in Sessions :
          /\ deity'[s] # deity[s] =>
                \E r \in Requests :
                    /\ receives(r, "new_memory")
                    /\ session'[r] = s
                    /\ response'[r] = Redirect
                    /\ LET text == original_memory_text'[r]
                       IN  IF deity'[s]
                           THEN /\ first_match(text) = "login"
                                /\ attempt_args(LOGIN, text) = <<secret>>
                           ELSE first_match(text) = "logout"
          /\ \A r \in Requests :
                ( /\ receives(r, "new_memory")
                  /\ session'[r] = s
                  /\ first_match(original_memory_text'[r]) = "logout"
                  /\ response'[r] = Redirect )
                => ~ deity'[s]
          /\ \A r \in Requests :
                (pc[r] # "done" /\ pc'[r] = "done" /\ response'[r].code = 401)
                => deity' = deity]_vars

\* C7 witness: session 1 has logged out while session 2 is still a deity.
FlagProvenanceWitness ==
    \E r \in Requests :
        /\ pc[r] = "done"
        /\ handler[r] = "new_memory"
        /\ session[r] = 1
        /\ first_match(original_memory_text[r]) = "logout"
        /\ response[r] = Redirect
        /\ ~ deity[1]
        /\ deity[2]

\* C8. Forget authorization: a forget of a session that is no deity is
\* answered 401 and leaves the store as it was, whatever the id; a memory
\* leaves the store only in a forget of a deity or as the oldest memory in the
\* eviction step of a submission.
ForgetAuthorization ==
    [][/\ \A r \in Requests :
             (receives(r, "forget") /\ ~ deity[session'[r]])
             => /\ pc'[r] = "done"
                /\ response'[r].code = 401
                /\ store' = store
       /\ \A m \in store \ store' :
             \E r \in Requests :
                 \/ receives(r, "forget") /\ deity[session'[r]]
                 \/ /\ handler[r] = "new_memory"
                    /\ pc[r] = "delete"
                    /\ m.id = memory_to_delete[r]
                    /\ oldest_of(m, store)]_vars

\* C8 witness: a forget of the id of a stored memory was answered 401.
ForgetAuthorizationWitness ==
    \E r \in Requests :
        /\ pc[r] = "done"
        /\ handler[r] = "forget"
        /\ response[r].code = 401
        /\ \E m \in store : m.id = int(original_memory_text[r])

\* C9. Privileged forget: a forget of a deity with a numeric id is answered
\* with the redirect and removes the memory of that id and no other; when no
\* memory has the id the store stays as it was.
PrivilegedForget ==
    [][\A r \in Requests :
          ( /\ receives(r, "forget")
            /\ deity[session'[r]]
            /\ ~ not_an_int(original_memory_text'[r]) )
          => LET id == int(original_memory_text'[r])
             IN  /\ pc'[r] = "done"
                 /\ response'[r] = Redirect
                 /\ store' \subseteq store
                 /\ \A m \in store : m \in store' <=> m.id # id
                 /\ (\A m \in store : m.id # id) => store' = store]_vars

\* C9 witness: a deity's forget of an id that was allocated and is no longer
\* in the store was answered with the redirect and changed nothing.
PrivilegedForgetWitness ==
    \E r \in Requests :
        /\ pc[r] = "done"
        /\ handler[r] = "forget"
        /\ response[r] = Redirect
        /\ int(original_memory_text[r]) < nextId
        /\ evicted[r] = {}
        /\ store = entry[r]

\* an unmatched slash text: it starts with "/" and no command matches it
unmatched_slash(r) ==
    /\ pc[r] = "done"
    /\ handler[r] = "new_memory"
    /\ original_memory_text[r] # <<>>
    /\ original_memory_text[r][1] = "/"
    /\ first_match(original_memory_text[r]) = "none"

\* C10 as stated. Slash-guard: every unmatched slash text is answered with
\* 400 "Invalid Slash Command" and leaves the store as it was.
SlashGuardAnyLength ==
    \A r \in Requests :
        unmatched_slash(r) =>
            /\ response[r] = Status("Invalid Slash Command", 400)
            /\ store = entry[r]

\* C10 as amended. Slash-guard: an unmatched slash text of at most
\* MAX_CHARACTERS characters is answered with 400 "Invalid Slash Command", a
\* longer one with the 400 of validate(); the store stays as it was.
SlashGuard ==
    \A r \in Requests :
        unmatched_slash(r) =>
            /\ response[r] =
                  IF Len(original_memory_text[r]) <= MAX_CHARACTERS
                  THEN Status("Invalid Slash Command", 400)
                  ELSE Status("ERROR_TOO_LONG", 400)
            /\ store = entry[r]

\* C10 witness: "/bogus" was answered with 400 "Invalid Slash Command".
SlashGuardWitness ==
    \E r \in Requests :
        /\ unmatched_slash(r)
        /\ Len(original_memory_text[r]) <= MAX_CHARACTERS
        /\ response[r] = Status("Invalid Slash Command", 400)

\* the URLs SlashDanbooru.callback can build from a search result
built_urls(search) ==
    { DANBOORU_HOST \o search.results[i].file_url :
        i \in { k \in 1..Len(search.results) :
                  "file_url" \in DOMAIN search.results[k] } }

\* a danbooru submission whose search returned a non-empty result
danbooru_found(r) ==
    /\ pc[r] = "done"
    /\ handler[r] = "new_memory"
    /\ results[r].raised = ""
    /\ results[r].results # <<>>

\* C11: a "/danbooru <tags>" submission whose search returned a non-empty
\* result has stored exactly one new memory, whose text is a URL built from
\* an element of the result and not the slash text, after the eviction any
\* stored submission makes, and has answered with the redirect to the listing.
DanbooruSuccess ==
    \A r \in Requests :
        danbooru_found(r) =>
            /\ response[r] = Redirect
            /\ \E m \in store :
                  /\ store \ entry[r] = {m}
                  /\ m.text \in built_urls(results[r])
                  /\ m.text # original_memory_text[r]
            /\ entry[r] \ store = evicted[r]
            /\ Cardinality(evicted[r])
                  = (IF count(entry[r]) = MAX_MEMORIES THEN 1 ELSE 0)

\* a danbooru submission whose search returned zero results
danbooru_empty(r) ==
    /\ pc[r] = "done"
    /\ handler[r] = "new_memory"
    /\ results[r] = Found(<<>>)

\* C12: when the search returns zero results the danbooru submission is
\* answered with 400 and the configured message, and the store is as it was
\* when the request came in: nothing evicted, nothing inserted.
DanbooruEmpty ==
    \A r \in Requests :
        danbooru_empty(r) =>
            /\ response[r] = Status("ERROR_DANBOORU", 400)
            /\ store = entry[r]
            /\ evicted[r] = {}

\* C12 witness: an empty search result on a full store, where a stored
\* submission would have evicted.
DanbooruEmptyWitness ==
    \E r \in Requests :
        /\ danbooru_empty(r)
        /\ count(entry[r]) = MAX_MEMORIES

\* a finished submission of a text that is no slash text and was not in the
\* store when it came in
fresh_plain(r) ==
    /\ pc[r] = "done"
    /\ handler[r] = "new_memory"
    /\ ~ startswith(original_memory_text[r], <<"/">>)
    /\ count_with_text(entry[r], original_memory_text[r]) = 0

\* C13: of the submissions that are neither duplicates nor slash texts, the
\* one of exactly MAX_CHARACTERS characters is stored, the one of
\* MAX_CHARACTERS + 1 characters is answered with the 400 of the too-long
\* text and not stored, and the empty one is answered with the 400 of the
\* too-short text and not stored.
LengthBoundary ==
    \A r \in Requests :
        fresh_plain(r) =>
            /\ Len(original_memory_text[r]) = MAX_CHARACTERS =>
                  /\ response[r] = Redirect
                  /\ \E m \in store \ entry[r] :
                        m.text = original_memory_text[r]
            /\ Len(original_memory_text[r]) = MAX_CHARACTERS + 1 =>
                  /\ response[r] = Status("ERROR_TOO_LONG", 400)
                  /\ store = entry[r]
            /\ Len(original_memory_text[r]) = 0 =>
                  /\ response[r] = Status("Too short!", 400)
                  /\ store = entry[r]

\* C14: whenever a submission leaves the eviction loop for the insert, the
\* store holds fewer than MAX_MEMORIES memories, whatever it held when the
\* loop was entered, a count above MAX_MEMORIES left by interleaved
\* submissions included.
EvictionRestoresCapacity ==
    [][\A r \in Requests :
          (pc[r] = "count" /\ pc'[r] = "create") =>
              count(store') < MAX_MEMORIES]_vars

\* a finished submission whose text a command has replaced
replaced(r) ==
    /\ pc[r] = "done"
    /\ handler[r] = "new_memory"
    /\ memory_text[r] # original_memory_text[r]

\* C15: the text a command returns with a create-memory outcome is stored as
\* a memory, whatever its length and whether or not the store already has
\* it: neither the length check nor the duplicate check is run on it.
NoRevalidation ==
    \A r \in Requests :
        replaced(r) =>
            /\ response[r] = Redirect
            /\ \E m \in store \ entry[r] : m.text = memory_text[r]

\* the text is empty, longer than MAX_CHARACTERS, or the text of a memory
fails_validation(text, memories) ==
    \/ Len(text) = 0
    \/ Len(text) > MAX_CHARACTERS
    \/ \E m \in memories : m.text = text

\* C16: a submission whose text fails validation is answered at once with a
\* 400 response, also when it begins with the name of a command: no command
\* runs, so the store and every session's flag stay as they were and no
\* search is issued.
ValidationPrecedesDispatch ==
    [][\A r \in Requests :
          (/\ receives(r, "new_memory")
           /\ fails_validation(original_memory_text'[r], store)) =>
              /\ pc'[r] = "done"
              /\ response'[r].code = 400
              /\ response'[r].body \in
                    {"Too short!", "ERROR_TOO_LONG", "ERROR_UNORIGINAL"}
              /\ store' = store
              /\ deity' = deity
              /\ results' = results]_vars

\* C16 witness: "/login" with the right secret in a text that is too long
\* has been rejected, and the session is not logged in.
ValidationPrecedesDispatchWitness ==
    \E r \in Requests :
        /\ pc[r] = "done"
        /\ handler[r] = "new_memory"
        /\ Len(original_memory_text[r]) > MAX_CHARACTERS
        /\ first_match(original_memory_text[r]) = "login"
        /\ attempt_args(LOGIN, original_memory_text[r]) = <<secret>>
        /\ response[r] = Status("ERROR_TOO_LONG", 400)
        /\ ~ deity[session[r]]

\* the arguments do not fit the callback of the command the text matches
misfit(text) ==
    \/ first_match(text) = "login" /\ Len(attempt_args(LOGIN, text)) # 1
    \/ first_match(text) = "logout" /\ Len(attempt_args(LOGOUT, text)) # 0

\* C17: a valid submission that matches a command whose callback does not
\* take its arguments ("/login" alone, "/logout x") ends in a fault, the
\* TypeError leaving the handler, and not in a 400 or 401 response or a
\* stored memory; the store and every session's flag stay as they were and
\* no further command runs.
CommandFaultPropagates ==
    [][\A r \in Requests :
          (/\ receives(r, "new_memory")
           /\ ~ fails_validation(original_memory_text'[r], store)
           /\ misfit(original_memory_text'[r])) =>
              /\ pc'[r] = "done"
              /\ response'[r] = Fault("TypeError")
              /\ store' = store
              /\ deity' = deity
              /\ results' = results]_vars

\* C17 witness: "/logout x" from a logged-in session has ended in the fault
\* and the session is still logged in.
CommandFaultPropagatesWitness ==
    \E r \in Requests :
        /\ pc[r] = "done"
        /\ handler[r] = "new_memory"
        /\ first_match(original_memory_text[r]) = "logout"
        /\ attempt_args(LOGOUT, original_memory_text[r]) = << <<"x">> >>
        /\ response[r] = Fault("TypeError")
        /\ deity[session[r]]

\* C18: no memory in the store has a text that begins with "/": a submitted
\* slash text ends in the response of its command, is replaced by the text
\* the command produced, or is rejected.
NoSlashTextStored ==
    \A m \in store : ~ startswith(m.text, <<"/">>)

\* C18 witness: a slash text has been submitted and a memory stored for it,
\* under the text its command produced.
NoSlashTextStoredWitness ==
    \E r \in Requests :
        /\ stored(r)
        /\ startswith(original_memory_text[r], <<"/">>)
        /\ \E m \in store \ entry[r] : m.text = memory_text[r]

\* C19: no two memories that are in the store at the same time have the same
\* text, whatever submissions, plain or commands, and forgets came before.
TextUniqueness ==
    \A m \in store, o \in store : m.text = o.text => m = o

\* where a new_memory request is between its first and its last step
in_flight(r) == pc[r] \in {"search", "count", "oldest", "delete", "create", "put"}

\* Stored: the redirect after put(), with one memory more, of the text
Stored(r) ==
    /\ response[r] = Redirect
    /\ first_match(original_memory_text[r]) \notin {"login", "logout"}
    /\ \E m \in store : store \ entry[r] = {m} /\ m.text = memory_text[r]

\* ShortCircuited: the terminal response of a command, nothing stored
ShortCircuited(r) ==
    /\ \/ /\ first_match(original_memory_text[r]) \in {"login", "logout"}
          /\ response[r] \in {Redirect, Status("LOGIN_FAIL", 401)}
       \/ /\ first_match(original_memory_text[r]) = "danbooru"
          /\ response[r] = Status("ERROR_DANBOORU", 400)
    /\ store = entry[r]

\* the 400 of validation or of the slash guard, nothing stored
Rejected(r) ==
    /\ response[r].code = 400
    /\ response[r].body \in {"Too short!", "ERROR_TOO_LONG", "ERROR_UNORIGINAL",
                             "Invalid Slash Command"}
    /\ store = entry[r]

\* an exception has left the handler, nothing stored
Faulted(r) ==
    /\ response[r].code = 500
    /\ store \subseteq entry[r]

\* how many of the outcomes hold of request r
outcomes(r, with_fault) ==
    (IF Stored(r) THEN 1 ELSE 0) + (IF ShortCircuited(r) THEN 1 ELSE 0)
    + (IF Rejected(r) THEN 1 ELSE 0)
    + (IF with_fault /\ Faulted(r) THEN 1 ELSE 0)

----------------------------------------------------------------------------
============================================================================
